---- MODULE Spec2Model ----
(***************************************************************************)
(* FDO reverse proxy: the dispatcher (internal/proxy), the two             *)
(* interceptors (internal/middleware), the passport client                 *)
(* (internal/ledger) and the orchestrator (cmd/server).                    *)
(*                                                                         *)
(* A URL path is the sequence of its segments: <<"fdo","101","msg","10">>  *)
(* is "/fdo/101/msg/10".  A body is a sequence of tokens read through a    *)
(* single-read stream [data, pos].                                         *)
(***************************************************************************)
EXTENDS Naturals, Integers, Sequences, FiniteSets, TLC

VARIABLES
    cfg,          \* flags of cmd/server and the chain handed to NewFDOProxy
    ctxCancelled, \* the top-level context of main has been cancelled
    spc,          \* position of every Start call
    srv,          \* the http.Server each Start call creates
    proc,         \* the child process each Start call spawns
    everReady,    \* a backend has answered the health endpoint at least once
    pServer,      \* FDOProxy.server   (0 is nil, k the server of Start call k)
    pBackendCmd,  \* FDOProxy.backendCmd (0 is nil, k the command of Start call k)
    stp,          \* position, deadline and result of every Stop call
    startErr,     \* the error each Start call has returned ("none": not yet)
    exited,       \* the process of cmd/server has exited
    req,          \* the relay of every client request
    cls           \* input and result of one classification (SpecClassify)

vars == <<cfg, ctxCancelled, spc, srv, proc, everReady, pServer, pBackendCmd,
          stp, startErr, exited, req, cls>>

lifeVars == <<ctxCancelled, spc, srv, proc, everReady, pServer, pBackendCmd, stp,
              startErr, exited>>

-----------------------------------------------------------------------------
(* Bounds *)

MaxReqs == 1
ConcReqs == 2
LifeReqs == 2
MaxStarts == 2
MaxStops == 2
MaxPathLen == 4

\* main calls proxy.Start once
MainStarts == 1

-----------------------------------------------------------------------------
(* Strings of the program *)

StartType == "10"
HelloType == "60"
CredsType == "11"
DoneType == "71"

RECURSIVE SeqsUpTo(_, _)
SeqsUpTo(S, n) ==
    IF n = 0 THEN {<<>>}
    ELSE LET shorter == SeqsUpTo(S, n - 1)
         IN  shorter \cup {Append(p, s) : p \in {q \in shorter : Len(q) = n - 1}, s \in S}

\* strings.Contains(path, "/fdo/101/msg/"): the three segments in a row,
\* followed by one more separator, that is by one more segment
ContainsFdoMsg(path) ==
    \E i \in 1..Len(path) :
        /\ i + 3 <= Len(path)
        /\ path[i] = "fdo"
        /\ path[i + 1] = "101"
        /\ path[i + 2] = "msg"

\* strings.HasSuffix(path, "/" + t)
HasSuffixSeg(path, t) == Len(path) >= 1 /\ path[Len(path)] = t

\* strings.Split(path, "/"): the text before the first separator is empty
SplitPath(path) == <<"">> \o path

\* strings.Contains(string(body), "productId")
ContainsProductId(data) == \E i \in 1..Len(data) : data[i] = "productId"

-----------------------------------------------------------------------------
(* Configuration: the flags of cmd/server and what main builds from them *)

Flags == [enableProductPassport : BOOLEAN, productBaseURL : BOOLEAN,
          commissioningURL : BOOLEAN, ownerID : BOOLEAN, mtls : BOOLEAN]

\* ledger.NewClient: it fails when the mutual-TLS material does not load
NewClientOK(c) == c.mtls

\* main: the client is built only when one of the two URLs is set, and is kept
\* only when NewClient returned no error (otherwise it stays a nil interface)
HasClient(c) == (c.productBaseURL \/ c.commissioningURL) /\ NewClientOK(c)

\* main: DI first when the flag is set, then TO2 when an owner id is given
MainChain(c) ==
    (IF c.enableProductPassport THEN <<"DI">> ELSE <<>>)
        \o (IF c.ownerID THEN <<"TO2">> ELSE <<>>)

AllOn == [enableProductPassport |-> TRUE, productBaseURL |-> TRUE,
          commissioningURL |-> TRUE, ownerID |-> TRUE, mtls |-> TRUE]

WithChain(f, ch, load) ==
    [enableProductPassport |-> f.enableProductPassport,
     productBaseURL |-> f.productBaseURL,
     commissioningURL |-> f.commissioningURL,
     ownerID |-> f.ownerID, mtls |-> f.mtls, chain |-> ch, load |-> load]

\* NewFDOProxy takes any []Middleware: "Stub" is an implementation of the
\* Middleware interface other than the two of internal/middleware
StubChains == {<<"DI", "Stub">>, <<"Stub", "TO2">>}

RelayConfigs ==
    {WithChain(f, MainChain(f), "full") : f \in Flags}
        \cup {WithChain(AllOn, ch, "full") : ch \in StubChains}

ConcConfigs ==
    {WithChain(AllOn, MainChain(AllOn), "plain"),
     WithChain(AllOn, <<"Stub", "TO2">>, "plain")}

LifeConfigs ==
    {WithChain([AllOn EXCEPT !.enableProductPassport = FALSE,
                             !.productBaseURL = FALSE,
                             !.commissioningURL = FALSE], <<"TO2">>, "plain")}

-----------------------------------------------------------------------------
(* internal/ledger: the passport client *)

Statuses == {200, 201, 299, 300, 404, 500}

\* what one HTTP exchange of the client can come to
HttpOutcomes(ctxDone) ==
    IF ctxDone THEN {[kind |-> "cancelled", status |-> 0]}
    ELSE {[kind |-> "status", status |-> s] : s \in Statuses}
            \cup {[kind |-> "badjson", status |-> 200],
                  [kind |-> "neterr", status |-> 0],
                  [kind |-> "timeout", status |-> 0]}

\* a faulty variant: every 2xx status is taken as success
GetProductItemPassportErr_any2xx(c, h) ==
    IF ~c.productBaseURL THEN TRUE
    ELSE IF h.kind \notin {"status", "badjson"} THEN TRUE
    ELSE IF h.status < 200 \/ h.status >= 300 THEN TRUE
    ELSE h.kind = "badjson"

\* Client.GetProductItemPassport: TRUE when it returns an error
GetProductItemPassportErr(c, h) ==
    IF ~c.productBaseURL THEN TRUE
    ELSE IF h.kind \notin {"status", "badjson"} THEN TRUE
    ELSE IF h.status # 200 THEN TRUE
    ELSE h.kind = "badjson"

\* Client.CreateCommissioningPassport: TRUE when it returns an error
CreateCommissioningPassportErr(c, h) ==
    IF ~c.commissioningURL THEN TRUE
    ELSE IF h.kind # "status" THEN TRUE
    ELSE h.status < 200 \/ h.status >= 300

-----------------------------------------------------------------------------
(* Request bodies: single-read streams *)

NewReader(data) == [data |-> data, pos |-> 0]

\* what a reader still yields
Remaining(b) == SubSeq(b.data, b.pos + 1, Len(b.data))

\* the stream after io.ReadAll
Drained(b) == [data |-> b.data, pos |-> Len(b.data)]

\* an *http.Response: status, Message-Type header ("" when absent), body
Response(status, msgType, body) ==
    [status |-> status, msgType |-> msgType, body |-> body]

NoResp == Response(0, "", <<>>)

Call(op, arg, failed, ctx) ==
    [op |-> op, arg |-> arg, cert |-> "", loc |-> "", failed |-> failed, ctx |-> ctx]

\* the result of one ProcessRequest / ProcessResponse; body is what the call
\* leaves behind: the request body stream, or the response it was handed
Result(err, body, handler, calls, warned) ==
    [err |-> err, body |-> body, handler |-> handler, calls |-> calls,
     warned |-> warned]

-----------------------------------------------------------------------------
(* internal/middleware/di.go *)

isDIRequest(path) ==
    ContainsFdoMsg(path) /\ (HasSuffixSeg(path, "10") \/ HasSuffixSeg(path, "12"))

isDIResponse(msgType) == msgType = "11" \/ msgType = "13"

extractProductID(data) ==
    IF ContainsProductId(data) THEN "example-product-id" ELSE ""

\* a faulty variant: the error of the passport call is returned
handleDIAppStart_propagates(c, body, readOK, h) ==
    IF ~c.enableProductPassport \/ ~HasClient(c)
    THEN Result(FALSE, body, "appStart", <<>>, FALSE)
    ELSE IF ~readOK
    THEN Result(TRUE, Drained(body), "appStart", <<>>, FALSE)
    ELSE LET data == Remaining(body)
             productID == extractProductID(data)
             failed == GetProductItemPassportErr(c, h)
         IN  IF productID = ""
             THEN Result(FALSE, NewReader(data), "appStart", <<>>, FALSE)
             ELSE Result(failed, NewReader(data), "appStart",
                         <<Call("GetProductItemPassport", productID, failed, "top")>>,
                         failed)

\* a faulty variant: the body that was read is not put back
handleDIAppStart_noRestore(c, body, readOK, h) ==
    IF ~c.enableProductPassport \/ ~HasClient(c)
    THEN Result(FALSE, body, "appStart", <<>>, FALSE)
    ELSE IF ~readOK
    THEN Result(TRUE, Drained(body), "appStart", <<>>, FALSE)
    ELSE LET data == Remaining(body)
             productID == extractProductID(data)
             failed == GetProductItemPassportErr(c, h)
         IN  IF productID = ""
             THEN Result(FALSE, Drained(body), "appStart", <<>>, FALSE)
             ELSE Result(FALSE, Drained(body), "appStart",
                         <<Call("GetProductItemPassport", productID, failed, "top")>>,
                         failed)

handleDIAppStart(c, body, readOK, h) ==
    IF ~c.enableProductPassport \/ ~HasClient(c)
    THEN Result(FALSE, body, "appStart", <<>>, FALSE)
    ELSE IF ~readOK
    THEN Result(TRUE, Drained(body), "appStart", <<>>, FALSE)
    ELSE LET data == Remaining(body)
             productID == extractProductID(data)
             failed == GetProductItemPassportErr(c, h)
         IN  IF productID = ""
             THEN Result(FALSE, NewReader(data), "appStart", <<>>, FALSE)
             ELSE Result(FALSE, NewReader(data), "appStart",
                         <<Call("GetProductItemPassport", productID, failed, "top")>>,
                         failed)

\* a faulty variant: every request isDIRequest lets through
\* is handled, whatever its message type
DI_ProcessRequest_anyType(c, path, body, readOK, h) ==
    IF ~isDIRequest(path) THEN Result(FALSE, body, "none", <<>>, FALSE)
    ELSE IF Len(SplitPath(path)) < 5 THEN Result(FALSE, body, "none", <<>>, FALSE)
    ELSE handleDIAppStart(c, body, readOK, h)

DI_ProcessRequest(c, path, body, readOK, h) ==
    IF ~isDIRequest(path) THEN Result(FALSE, body, "none", <<>>, FALSE)
    ELSE IF Len(SplitPath(path)) < 5 THEN Result(FALSE, body, "none", <<>>, FALSE)
    ELSE IF SplitPath(path)[5] = StartType
    THEN handleDIAppStart(c, body, readOK, h)
    ELSE Result(FALSE, body, "none", <<>>, FALSE)

handleDISetCredentials(resp) == Result(FALSE, resp, "setCredentials", <<>>, FALSE)

\* a faulty variant: the handler runs for every response
DI_ProcessResponse_allResponses(c, resp, h) == handleDISetCredentials(resp)

\* a faulty variant: every response isDIResponse lets through is handled
DI_ProcessResponse_anyType(c, resp, h) ==
    IF ~isDIResponse(resp.msgType) THEN Result(FALSE, resp, "none", <<>>, FALSE)
    ELSE handleDISetCredentials(resp)

DI_ProcessResponse(c, resp, h) ==
    IF ~isDIResponse(resp.msgType) THEN Result(FALSE, resp, "none", <<>>, FALSE)
    ELSE IF resp.msgType = CredsType THEN handleDISetCredentials(resp)
    ELSE Result(FALSE, resp, "none", <<>>, FALSE)

-----------------------------------------------------------------------------
(* internal/middleware/to2.go *)

isTO2Request(path) ==
    ContainsFdoMsg(path) /\ (HasSuffixSeg(path, "60") \/ HasSuffixSeg(path, "70"))

isTO2Response(msgType) == msgType = "71"

\* the placeholder of lines 158-162: the response is not looked at
extractDeviceGUID(resp) == "example-device-guid"

handleTO2HelloDevice(body) == Result(FALSE, body, "helloDevice", <<>>, FALSE)

TO2_ProcessRequest(c, path, body) ==
    IF ~isTO2Request(path) THEN Result(FALSE, body, "none", <<>>, FALSE)
    ELSE IF Len(SplitPath(path)) < 5 THEN Result(FALSE, body, "none", <<>>, FALSE)
    ELSE IF SplitPath(path)[5] = HelloType THEN handleTO2HelloDevice(body)
    ELSE Result(FALSE, body, "none", <<>>, FALSE)

\* a faulty variant: the owner id is sent as controller_uuid
handleTO2Done2_ownerAsController(c, ctx, resp, h) ==
    IF ~HasClient(c) THEN Result(FALSE, resp, "done2", <<>>, FALSE)
    ELSE LET failed == CreateCommissioningPassportErr(c, h)
         IN  Result(FALSE, resp, "done2",
                    <<Call("CreateCommissioningPassport", "owner-id", failed, ctx)>>,
                    failed)

\* a faulty variant: the response body is read for the GUID and not put back
handleTO2Done2_readsBody(c, ctx, resp, h) ==
    IF ~HasClient(c) THEN Result(FALSE, resp, "done2", <<>>, FALSE)
    ELSE LET deviceGUID == extractDeviceGUID(resp)
             failed == CreateCommissioningPassportErr(c, h)
         IN  Result(FALSE, [resp EXCEPT !.body = <<>>], "done2",
                    <<Call("CreateCommissioningPassport", deviceGUID, failed, ctx)>>,
                    failed)

handleTO2Done2(c, ctx, resp, h) ==
    IF ~HasClient(c) THEN Result(FALSE, resp, "done2", <<>>, FALSE)
    ELSE LET deviceGUID == extractDeviceGUID(resp)
             failed == CreateCommissioningPassportErr(c, h)
         IN  IF deviceGUID = ""
             THEN Result(FALSE, resp, "done2", <<>>, TRUE)
             ELSE Result(FALSE, resp, "done2",
                         <<Call("CreateCommissioningPassport", deviceGUID, failed, ctx)>>,
                         failed)

TO2_ProcessResponse(c, ctx, resp, h) ==
    IF ~isTO2Response(resp.msgType) THEN Result(FALSE, resp, "none", <<>>, FALSE)
    ELSE IF resp.msgType = DoneType THEN handleTO2Done2(c, ctx, resp, h)
    ELSE Result(FALSE, resp, "none", <<>>, FALSE)

-----------------------------------------------------------------------------
(* Middleware interface: dynamic dispatch on the element of the chain *)

Stub_ProcessRequest(body, fail) == Result(fail, body, "stub", <<>>, FALSE)

Stub_ProcessResponse(resp, fail) == Result(fail, resp, "stub", <<>>, FALSE)

\* the outcomes an interceptor of this kind can meet: only DI reads the body,
\* only the stub fails at will, and only one kind calls the client in a stage
ReadOutcomes(kind) == IF kind = "DI" THEN BOOLEAN ELSE {TRUE}

StubOutcomes(kind) == IF kind = "Stub" THEN BOOLEAN ELSE {FALSE}

CallOutcomes(kind, caller, ctxDone) ==
    IF kind = caller THEN HttpOutcomes(ctxDone)
    ELSE {[kind |-> "status", status |-> 200]}

ProcessRequest(kind, c, path, body, readOK, h, fail) ==
    CASE kind = "DI" -> DI_ProcessRequest(c, path, body, readOK, h)
      [] kind = "TO2" -> TO2_ProcessRequest(c, path, body)
      [] OTHER -> Stub_ProcessRequest(body, fail)

ProcessResponse(kind, c, ctx, resp, h, fail) ==
    CASE kind = "DI" -> DI_ProcessResponse(c, resp, h)
      [] kind = "TO2" -> TO2_ProcessResponse(c, ctx, resp, h)
      [] OTHER -> Stub_ProcessResponse(resp, fail)

-----------------------------------------------------------------------------
(* What the clients and the backend send *)

StartPath == <<"fdo", "101", "msg", "10">>
HelloPath == <<"fdo", "101", "msg", "60">>

Paths(c) == IF c.load = "full" THEN {StartPath, HelloPath} ELSE {StartPath}

Bodies(c) ==
    IF c.load = "full" THEN {<<"hdr", "productId">>, <<"hdr">>}
    ELSE {<<"hdr", "productId">>}

\* a response without a Message-Type header has msgType "" (Header.Get)
Responses(c) ==
    IF c.load = "full"
    THEN {Response(200, "71", <<"done2">>), Response(200, "11", <<"creds">>),
          Response(500, "", <<"failure">>)}
    ELSE {Response(200, "71", <<"done2">>)}

\* http.Error(w, "Internal Server Error", 500)
InternalServerError == Response(500, "", <<"Internal Server Error">>)

\* the default ErrorHandler of httputil.ReverseProxy
BadGateway == Response(502, "", <<>>)

Event(ph, i, handler) == [ph |-> ph, i |-> i, handler |-> handler]

IdleReq ==
    [pc |-> "idle", i |-> 0, by |-> 0, path |-> <<>>, sent |-> <<>>,
     body |-> NewReader(<<>>), reqErr |-> 0, got |-> <<>>, fwdUp |-> FALSE,
     resp |-> NoResp, relayed |-> NoResp, respErrs |-> {}, modErr |-> FALSE,
     out |-> NoResp, calls |-> <<>>, warned |-> FALSE, trace |-> <<>>,
     peers |-> {}, cancelled |-> {}]

Reqs == DOMAIN req
Starts == DOMAIN spc
Stops == DOMAIN stp

ChainLen == Len(cfg.chain)

InFlight(s) == {r \in Reqs : req[r].by = s /\ req[r].pc \notin {"idle", "done"}}

BackendUpNow == \E k \in Starts : proc[k] = "up"

\* a backend that holds the port and accepts connections without answering
BackendMuteNow == \E k \in Starts : proc[k] = "mute"

Listening == {k \in Starts : srv[k] = "listening"}

\* the child processes that run
Alive == {k \in Starts : proc[k] \in {"starting", "up", "mute"}}

-----------------------------------------------------------------------------
(* FDOProxy: the relay of one request (the handler of Start) *)

\* the server accepts a request and calls the handler
Accept ==
    \E r \in Reqs :
        /\ ~exited
        /\ req[r].pc = "idle"
        /\ IF r = 1 THEN TRUE ELSE req[r - 1].pc # "idle"
        /\ \E k \in Listening, path \in Paths(cfg), data \in Bodies(cfg) :
              req' = [req EXCEPT ![r] =
                        [@ EXCEPT !.pc = IF ChainLen = 0 THEN "forward" ELSE "reqStage",
                                  !.i = 1, !.by = k, !.path = path, !.sent = data,
                                  !.body = NewReader(data),
                                  !.peers = {o \in Reqs : req[o].pc \notin {"idle", "done"}}]]
        /\ UNCHANGED <<cfg, lifeVars, cls>>

\* faulty variants: the handler forwards although an
\* interceptor failed; the loop stops after its first interceptor
AfterProcessRequest_ignoresError(i, err) ==
    IF i < ChainLen THEN "reqStage" ELSE "forward"

AfterProcessRequest_firstOnly(i, err) == IF err THEN "done" ELSE "forward"

\* a faulty variant: the failure of one relay is seen by the others
AfterProcessRequest_sharedFailure(i, err) ==
    IF err \/ (\E o \in Reqs : req[o].reqErr # 0) THEN "done"
    ELSE IF i < ChainLen THEN "reqStage" ELSE "forward"

\* processRequest and the handler's test of its result: what follows the
\* i-th ProcessRequest, given whether it returned an error
AfterProcessRequest(i, err) ==
    IF err THEN "done" ELSE IF i < ChainLen THEN "reqStage" ELSE "forward"

\* one turn of the loop of processRequest, with the handler's answer when the
\* interceptor returned an error
ReqStep ==
    \E r \in Reqs :
        /\ ~exited
        /\ req[r].pc = "reqStage"
        /\ \E readOK \in ReadOutcomes(cfg.chain[req[r].i]),
              fail \in StubOutcomes(cfg.chain[req[r].i]),
              h \in CallOutcomes(cfg.chain[req[r].i], "DI", ctxCancelled) :
              LET q == req[r]
                  res == ProcessRequest(cfg.chain[q.i], cfg, q.path, q.body, readOK, h, fail)
                  next == AfterProcessRequest(q.i, res.err)
                  ev == <<Event("req", q.i, res.handler)>>
                          \o (IF next = "done" THEN <<Event("reply", 0, "none")>> ELSE <<>>)
              IN  req' = [req EXCEPT ![r] =
                            [@ EXCEPT !.pc = next,
                                      !.i = IF next = "reqStage" THEN q.i + 1 ELSE 1,
                                      !.body = res.body,
                                      !.reqErr = IF res.err THEN q.i ELSE @,
                                      !.out = IF next = "done" THEN InternalServerError ELSE @,
                                      !.calls = @ \o res.calls,
                                      !.cancelled = IF h.kind = "cancelled"
                                                       /\ res.calls # <<>>
                                                    THEN @ \cup {q.i} ELSE @,
                                      !.warned = @ \/ res.warned,
                                      !.trace = @ \o ev]]
        /\ UNCHANGED <<cfg, lifeVars, cls>>

\* proxy.ServeHTTP: the request goes to the backend, which answers when it is
\* up; when nothing holds the port the reverse proxy answers 502 itself, and
\* when the backend accepts without answering the call waits (the Transport of
\* lines 80-82 has no timeout)
Forward ==
    \E r \in Reqs :
        /\ ~exited
        /\ req[r].pc = "forward"
        /\ ~BackendMuteNow
        /\ \E resp \in Responses(cfg) :
              LET q == req[r]
                  up == BackendUpNow
              IN  req' = [req EXCEPT ![r] =
                            [@ EXCEPT !.pc = IF ~up THEN "done"
                                             ELSE IF ChainLen = 0 THEN "reply" ELSE "respStage",
                                      !.i = 1,
                                      !.got = Remaining(q.body),
                                      !.body = Drained(q.body),
                                      !.fwdUp = up,
                                      !.resp = IF up THEN resp ELSE NoResp,
                                      !.relayed = IF up THEN resp ELSE NoResp,
                                      !.out = IF up THEN @ ELSE BadGateway,
                                      !.trace = @ \o <<Event("backend", 0, "none")>>
                                                  \o (IF up THEN <<>>
                                                      ELSE <<Event("reply", 0, "none")>>)]]
        /\ UNCHANGED <<cfg, lifeVars, cls>>

\* a faulty variant: the interceptor's error is returned
ModifyResponseErr_propagates(failedBefore, err) == failedBefore \/ err

\* modifyResponse: what it returns after the i-th ProcessResponse, given the
\* error that one returned and whether an earlier turn already failed
ModifyResponseErr(failedBefore, err) == FALSE

\* a faulty variant: the loop of modifyResponse ends at the first error
AfterProcessResponse_stopsOnError(i, err) ==
    IF err THEN "reply" ELSE IF i < ChainLen THEN "respStage" ELSE "reply"

\* modifyResponse: what follows the i-th ProcessResponse
AfterProcessResponse(i, err) == IF i < ChainLen THEN "respStage" ELSE "reply"

\* one turn of the loop of modifyResponse (its context is context.Background())
RespStep ==
    \E r \in Reqs :
        /\ ~exited
        /\ req[r].pc = "respStage"
        /\ \E fail \in StubOutcomes(cfg.chain[req[r].i]),
              h \in CallOutcomes(cfg.chain[req[r].i], "TO2", FALSE) :
              LET q == req[r]
                  res == ProcessResponse(cfg.chain[q.i], cfg, "background",
                                         q.relayed, h, fail)
                  next == AfterProcessResponse(q.i, res.err)
              IN  req' = [req EXCEPT ![r] =
                            [@ EXCEPT !.pc = next,
                                      !.i = IF next = "respStage" THEN q.i + 1 ELSE 1,
                                      !.relayed = res.body,
                                      !.respErrs = IF res.err THEN @ \cup {q.i} ELSE @,
                                      !.modErr = ModifyResponseErr(@, res.err),
                                      !.calls = @ \o res.calls,
                                      !.warned = @ \/ res.warned,
                                      !.trace = @ \o <<Event("resp", q.i, res.handler)>>]]
        /\ UNCHANGED <<cfg, lifeVars, cls>>

\* the reverse proxy writes the reply: the backend's response, or 502 when
\* ModifyResponse returned an error
Reply ==
    \E r \in Reqs :
        /\ ~exited
        /\ req[r].pc = "reply"
        /\ req' = [req EXCEPT ![r] =
                     [@ EXCEPT !.pc = "done",
                               !.out = IF req[r].modErr THEN BadGateway ELSE req[r].relayed,
                               !.trace = @ \o <<Event("reply", 0, "none")>>]]
        /\ UNCHANGED <<cfg, lifeVars, cls>>

-----------------------------------------------------------------------------
(* FDOProxy: Start, Stop and the backend process *)

\* p.mu is held by a Stop from its first line to its return
MuHeld == \E j \in Stops : stp[j].pc = "draining"

\* Start, lines 61-63: an error of startBackendServer is returned
AfterLaunch(ok) == IF ok THEN "wait" ELSE "returned"

\* a faulty variant: Start goes on although the wait timed out
AfterTimeout_servesAnyway == "ready"

\* Start, lines 66-68: the error of waitForBackend is returned
AfterTimeout == "returned"

\* Start, lines 61-63, with startBackendServer: the command is stored before
\* it is started, and cmd.Start fails at once under a cancelled context
StartBackend ==
    \E k \in Starts :
        /\ ~exited
        /\ spc[k] = "idle"
        /\ IF k = 1 THEN TRUE ELSE spc[k - 1] # "idle"
        /\ ~MuHeld
        /\ \E launchOK \in BOOLEAN :
              LET ok == launchOK /\ ~ctxCancelled
              IN  /\ proc' = [proc EXCEPT ![k] = IF ok THEN "starting" ELSE "none"]
                  /\ spc' = [spc EXCEPT ![k] = AfterLaunch(ok)]
                  /\ startErr' = [startErr EXCEPT ![k] = IF ok THEN @ ELSE "launch"]
        /\ pBackendCmd' = k
        /\ UNCHANGED <<cfg, ctxCancelled, srv, everReady, pServer, stp, req, cls,
                       exited>>

\* the child binds the backend port and serves /health; the port is free
\* only when no other child serves on it
BackendUp ==
    \E k \in Starts :
        /\ proc[k] = "starting"
        /\ \A j \in Starts : proc[j] \notin {"up", "mute"}
        /\ proc' = [proc EXCEPT ![k] = "up"]
        /\ everReady' = TRUE
        /\ UNCHANGED <<cfg, ctxCancelled, spc, srv, pServer, pBackendCmd, stp, req, cls,
                       startErr, exited>>

\* the child binds the backend port and accepts connections, but never
\* answers a request
BackendMute ==
    \E k \in Starts :
        /\ proc[k] = "starting"
        /\ \A j \in Starts : proc[j] \notin {"up", "mute"}
        /\ proc' = [proc EXCEPT ![k] = "mute"]
        /\ UNCHANGED <<cfg, ctxCancelled, spc, srv, everReady, pServer, pBackendCmd,
                       stp, req, cls,
                       startErr, exited>>

\* a faulty variant: the probe's result is not looked at
ProbeOK_always == TRUE

\* waitForBackend, lines 163-167: GET /health had no error and status 200
ProbeOK == BackendUpNow

\* http.Get of line 163 uses http.DefaultClient, which has no timeout: the
\* call does not return while the backend holds the connection unanswered
ProbeHangs == BackendMuteNow

\* waitForBackend, case <-ticker.C: the probe succeeds, fails, or is still
\* waiting for its answer
Tick ==
    \E k \in Starts :
        /\ ~exited
        /\ spc[k] = "wait"
        /\ spc' = [spc EXCEPT ![k] = IF ProbeOK THEN "ready"
                                     ELSE IF ProbeHangs THEN "probing" ELSE "wait"]
        /\ UNCHANGED <<cfg, ctxCancelled, srv, proc, everReady, pServer, pBackendCmd,
                       stp, req, cls,
                       startErr, exited>>

\* the pending http.Get returns an error once the backend that held the
\* connection is gone, and the loop of waitForBackend goes on
ProbeReturn ==
    \E k \in Starts :
        /\ ~exited
        /\ spc[k] = "probing"
        /\ ~BackendMuteNow
        /\ spc' = [spc EXCEPT ![k] = "wait"]
        /\ UNCHANGED <<cfg, ctxCancelled, srv, proc, everReady, pServer, pBackendCmd,
                       stp, req, cls,
                       startErr, exited>>

\* waitForBackend, case <-timeout, and Start's return of the error
Timeout ==
    \E k \in Starts :
        /\ ~exited
        /\ spc[k] = "wait"
        /\ spc' = [spc EXCEPT ![k] = AfterTimeout]
        /\ startErr' = [startErr EXCEPT ![k] = "timeout"]
        /\ UNCHANGED <<cfg, ctxCancelled, srv, proc, everReady, pServer, pBackendCmd,
                       stp, req, cls, exited>>

\* Start, lines 70-97: the server is created and stored without the lock
AssignServer ==
    \E k \in Starts :
        /\ ~exited
        /\ spc[k] = "ready"
        /\ spc' = [spc EXCEPT ![k] = "assigned"]
        /\ srv' = [srv EXCEPT ![k] = "new"]
        /\ pServer' = k
        /\ UNCHANGED <<cfg, ctxCancelled, proc, everReady, pBackendCmd, stp, req, cls,
                       startErr, exited>>

\* Start, line 100: ListenAndServe returns ErrServerClosed on a server that
\* was shut down, fails when the address cannot be bound, and serves otherwise
Listen ==
    \E k \in Starts :
        /\ ~exited
        /\ spc[k] = "assigned"
        /\ \E bindOK \in BOOLEAN :
              LET ok == srv[k] = "new" /\ bindOK /\ Listening = {}
              IN  /\ spc' = [spc EXCEPT ![k] = IF ok THEN "serving" ELSE "returned"]
                  /\ srv' = [srv EXCEPT ![k] = IF ok THEN "listening" ELSE @]
                  /\ startErr' = [startErr EXCEPT ![k] =
                                     IF ok THEN @
                                     ELSE IF srv[k] = "new" THEN "bind" ELSE "closed"]
        /\ UNCHANGED <<cfg, ctxCancelled, proc, everReady, pServer, pBackendCmd, stp,
                       req, cls, exited>>

\* ListenAndServe returns once the listener is closed
ServeReturn ==
    \E k \in Starts :
        /\ ~exited
        /\ spc[k] = "serving"
        /\ srv[k] = "closed"
        /\ spc' = [spc EXCEPT ![k] = "returned"]
        /\ startErr' = [startErr EXCEPT ![k] = "closed"]
        /\ UNCHANGED <<cfg, ctxCancelled, srv, proc, everReady, pServer, pBackendCmd,
                       stp, req, cls, exited>>

\* main, lines 102-106: a signal arrives and the goroutine calls cancel()
Signal ==
    /\ ~exited
    /\ ~ctxCancelled
    /\ ctxCancelled' = TRUE
    /\ UNCHANGED <<cfg, spc, srv, proc, everReady, pServer, pBackendCmd, stp, req, cls,
                       startErr, exited>>

\* main, lines 110-113: Start has returned, its error is never nil, and
\* os.Exit ends the process at once: deferred calls do not run, goroutines
\* stop, and the child process is not signalled
Exit ==
    /\ ~exited
    /\ \E k \in Starts : spc[k] = "returned"
    /\ exited' = TRUE
    /\ UNCHANGED <<cfg, ctxCancelled, spc, srv, proc, everReady, pServer, pBackendCmd,
                   stp, startErr, req, cls>>

\* exec.CommandContext: the child is killed once the context is done
CtxKill ==
    \E k \in Starts :
        /\ ~exited
        /\ ctxCancelled
        /\ proc[k] \in {"starting", "up", "mute"}
        /\ proc' = [proc EXCEPT ![k] = "dead"]
        /\ UNCHANGED <<cfg, ctxCancelled, spc, srv, everReady, pServer, pBackendCmd,
                       stp, req, cls,
                       startErr, exited>>

\* a faulty variant: Stop leaves the listener alone
ShutdownServer_skipped(s) == srv

\* Stop, lines 109-113: Shutdown closes the listener of p.server, if any
ShutdownServer(s) == IF s = 0 THEN srv ELSE [srv EXCEPT ![s] = "closed"]

\* a faulty variant: Stop returns the error it met
StopReturn_propagates(shutdownErr, killErr) ==
    IF shutdownErr \/ killErr THEN "error" ELSE "nil"

\* Stop, lines 110-122: both errors are logged and nil is returned
StopReturn(shutdownErr, killErr) == "nil"

\* Stop, lines 105-113: the lock is taken and Shutdown closes the listener
\* of p.server, if there is one
StopBegin ==
    \E j \in Stops :
        /\ ~exited
        /\ stp[j].pc = "idle"
        /\ IF j = 1 THEN TRUE ELSE stp[j - 1].pc # "idle"
        /\ ~MuHeld
        /\ stp' = [stp EXCEPT ![j] = [@ EXCEPT !.pc = "draining", !.srv = pServer]]
        /\ srv' = ShutdownServer(pServer)
        /\ UNCHANGED <<cfg, ctxCancelled, spc, proc, everReady, pServer, pBackendCmd,
                       req, cls,
                       startErr, exited>>

\* Stop, lines 110-122: Shutdown returns when no relay of that server is in
\* flight, or with an error when the deadline of Stop's context expires; then
\* the process of p.backendCmd is killed, which can fail when that process is
\* gone already, and nil is returned
StopFinish ==
    \E j \in Stops :
        /\ ~exited
        /\ stp[j].pc = "draining"
        /\ LET expired == stp[j].srv # 0 /\ InFlight(stp[j].srv) # {}
               hasProc == pBackendCmd # 0 /\ proc[pBackendCmd] # "none"
               alive == hasProc /\ pBackendCmd \in Alive
           IN  \E killErr \in (IF hasProc /\ ~alive THEN BOOLEAN ELSE {FALSE}) :
                  /\ stp' = [stp EXCEPT ![j] =
                                [@ EXCEPT !.pc = "done", !.expired = expired,
                                          !.killed = IF alive THEN pBackendCmd ELSE 0,
                                          !.killErr = killErr,
                                          !.ret = StopReturn(expired, killErr)]]
                  /\ proc' = IF alive THEN [proc EXCEPT ![pBackendCmd] = "dead"]
                             ELSE proc
        /\ UNCHANGED <<cfg, ctxCancelled, spc, srv, everReady, pServer, pBackendCmd,
                       req, cls,
                       startErr, exited>>

IdleStop ==
    [pc |-> "idle", srv |-> 0, expired |-> FALSE, killed |-> 0, killErr |-> FALSE,
     ret |-> "none"]

-----------------------------------------------------------------------------
(* Specifications *)

NoResult == Result(FALSE, NewReader(<<>>), "none", <<>>, FALSE)

NoCls ==
    [used |-> FALSE, stage |-> "in", kind |-> "request", path |-> <<>>,
     msgType |-> "", di |-> NoResult, to2 |-> NoResult,
     h |-> [kind |-> "status", status |-> 0], err |-> FALSE]

InitWith(configs, starts, stops, reqs) ==
    /\ cfg \in configs
    /\ ctxCancelled = FALSE
    /\ spc = [k \in 1..starts |-> "idle"]
    /\ srv = [k \in 1..starts |-> "none"]
    /\ proc = [k \in 1..starts |-> "none"]
    /\ everReady = FALSE
    /\ pServer = 0
    /\ pBackendCmd = 0
    /\ stp = [j \in 1..stops |-> IdleStop]
    /\ startErr = [k \in 1..starts |-> "none"]
    /\ exited = FALSE
    /\ req = [r \in 1..reqs |-> IdleReq]

RelayStep == Accept \/ ReqStep \/ Forward \/ RespStep \/ Reply

StartStep == StartBackend \/ BackendUp \/ Tick \/ Timeout \/ AssignServer \/ Listen

Next ==
    \/ StartStep \/ RelayStep \/ ServeReturn \/ CtxKill \/ Signal \/ StopBegin
    \/ StopFinish \/ BackendMute \/ ProbeReturn

\* cmd/server: main calls Start once (line 110); signals arrive, clients send
\* requests, and Stop, which is exported, may be called
Init == InitWith(LifeConfigs, MainStarts, MaxStops, LifeReqs) /\ cls = NoCls

\* main exits as soon as Start has returned
NextMain == Next \/ Exit

Spec == Init /\ [][NextMain]_vars

\* the ticker and the timer of waitForBackend fire, and a call that can
\* return does return
SpecFair == Spec /\ WF_vars(Tick) /\ WF_vars(Timeout) /\ WF_vars(ProbeReturn)

\* the dispatcher as a library: callers call Start and Stop as they like
InitLib == InitWith(LifeConfigs, MaxStarts, MaxStops, MaxReqs) /\ cls = NoCls

SpecLib == InitLib /\ [][Next]_vars

\* one Start and no signal: every configuration, every request, every response
InitRelay == InitWith(RelayConfigs, MainStarts, 0, MaxReqs) /\ cls = NoCls

NextRelay == StartStep \/ RelayStep

SpecRelay == InitRelay /\ [][NextRelay]_vars

\* one Start and no signal: concurrent relays through chains of two interceptors
InitConc == InitWith(ConcConfigs, MainStarts, 0, ConcReqs) /\ cls = NoCls

SpecConc == InitConc /\ [][NextRelay]_vars

\* one Start, enrichment and commissioning configured, and the shutdown
\* signal arriving at any moment of a relay
CancelConfigs == {WithChain(AllOn, MainChain(AllOn), "plain")}

InitCancel == InitWith(CancelConfigs, MainStarts, 0, LifeReqs) /\ cls = NoCls

NextCancel == StartStep \/ RelayStep \/ Signal \/ CtxKill

SpecCancel == InitCancel /\ [][NextCancel]_vars

-----------------------------------------------------------------------------
(* The classifiers of the two interceptors on their own: one request path or
   one Message-Type header is drawn, and both interceptors are applied to it *)

Segs == {"fdo", "101", "msg", "10", "12", "60"}

MsgTypes == {"", "10", "11", "13", "60", "70", "71"}

ClassifyConfigs ==
    {WithChain(AllOn, MainChain(AllOn), "full"),
     WithChain([AllOn EXCEPT !.productBaseURL = FALSE, !.commissioningURL = FALSE],
               MainChain(AllOn), "full")}

ClsInputs ==
    {[NoCls EXCEPT !.used = TRUE, !.path = p] : p \in SeqsUpTo(Segs, MaxPathLen)}
        \cup {[NoCls EXCEPT !.used = TRUE, !.kind = "response", !.msgType = t] :
                t \in MsgTypes}

InitClassify ==
    /\ InitWith(ClassifyConfigs, 0, 0, 0)
    /\ cls \in ClsInputs

ClassifyRequest ==
    /\ cls.used /\ cls.stage = "in" /\ cls.kind = "request"
    /\ \E data \in Bodies(cfg), readOK \in BOOLEAN, h \in HttpOutcomes(ctxCancelled) :
          cls' = [cls EXCEPT
                    !.stage = "out",
                    !.di = DI_ProcessRequest(cfg, cls.path, NewReader(data), readOK, h),
                    !.to2 = TO2_ProcessRequest(cfg, cls.path, NewReader(data))]
    /\ UNCHANGED <<cfg, lifeVars, req>>

ClassifyResponse ==
    /\ cls.used /\ cls.stage = "in" /\ cls.kind = "response"
    /\ \E h \in HttpOutcomes(FALSE) :
          cls' = [cls EXCEPT
                    !.stage = "out",
                    !.di = DI_ProcessResponse(cfg, Response(200, cls.msgType, <<>>), h),
                    !.to2 = TO2_ProcessResponse(cfg, "background",
                                                Response(200, cls.msgType, <<>>), h)]
    /\ UNCHANGED <<cfg, lifeVars, req>>

NextClassify == ClassifyRequest \/ ClassifyResponse

SpecClassify == InitClassify /\ [][NextClassify]_vars

\* the ledger client on its own: every client main can build, one call of
\* either method, and every outcome of the HTTP exchange
ClientConfigs == {WithChain(f, MainChain(f), "plain") : f \in Flags}

ClientOutcomes ==
    HttpOutcomes(FALSE) \cup HttpOutcomes(TRUE)
        \cup {[kind |-> "status", status |-> s] : s \in {100, 199, 204, 301}}

ClientInputs ==
    {[NoCls EXCEPT !.used = TRUE, !.kind = k, !.h = h] :
        k \in {"get", "create"}, h \in ClientOutcomes}

InitClient ==
    /\ InitWith(ClientConfigs, 0, 0, 0)
    /\ cls \in ClientInputs

ClientGet ==
    /\ cls.used /\ cls.stage = "in" /\ cls.kind = "get"
    /\ cls' = [cls EXCEPT !.stage = "out",
                          !.err = GetProductItemPassportErr(cfg, cls.h)]
    /\ UNCHANGED <<cfg, lifeVars, req>>

ClientCreate ==
    /\ cls.used /\ cls.stage = "in" /\ cls.kind = "create"
    /\ cls' = [cls EXCEPT !.stage = "out",
                          !.err = CreateCommissioningPassportErr(cfg, cls.h)]
    /\ UNCHANGED <<cfg, lifeVars, req>>

NextClient == ClientGet \/ ClientCreate

SpecClient == InitClient /\ [][NextClient]_vars

-----------------------------------------------------------------------------
(* Properties *)

Phases(q) == [a \in 1..Len(q.trace) |-> q.trace[a].ph]

Count(q, ph) == Cardinality({a \in 1..Len(q.trace) : q.trace[a].ph = ph})

Forwarded(q) == \E a \in 1..Len(q.trace) : q.trace[a].ph = "backend"

FailedCalls(q, op) ==
    {a \in 1..Len(q.calls) : q.calls[a].op = op /\ q.calls[a].failed}

AnyFailedCall(q) ==
    FailedCalls(q, "GetProductItemPassport") # {}
        \/ FailedCalls(q, "CreateCommissioningPassport") # {}

\* C1 (P1, isolation): in a relay where a call to the passport client failed
\* (an error, a timeout, a bad status), no interceptor of internal/middleware
\* returned an error, and once the relay is done without an interceptor
\* error the client holds exactly the status and body the backend produced.
C1_Isolation ==
    \A r \in Reqs :
        LET q == req[r]
        IN  AnyFailedCall(q) =>
                /\ q.reqErr # 0 => cfg.chain[q.reqErr] = "Stub"
                /\ q.pc = "done" /\ q.reqErr = 0 =>
                        /\ q.resp \in Responses(cfg)
                        /\ q.out = q.resp

C1_Witness ==
    \E r \in Reqs :
        /\ req[r].pc = "done"
        /\ FailedCalls(req[r], "GetProductItemPassport") # {}
        /\ FailedCalls(req[r], "CreateCommissioningPassport") # {}
        /\ req[r].out = Response(200, "71", <<"done2">>)

C3_ResponseErrorIgnored ==
    \A r \in Reqs :
        LET q == req[r]
        IN  q.respErrs # {} =>
                /\ ~q.modErr
                /\ q.pc = "done" => q.out = q.resp /\ q.resp \in Responses(cfg)

C3_Witness ==
    \E r \in Reqs :
        /\ req[r].pc = "done"
        /\ req[r].respErrs # {}
        /\ req[r].out = Response(200, "71", <<"done2">>)

PhaseRank(ph) ==
    CASE ph = "req" -> 1 [] ph = "backend" -> 2 [] ph = "resp" -> 3 [] OTHER -> 4

\* C4: in the relay of one request every ProcessRequest (all of the chain, in
\* order) comes before the backend call, the backend call before every
\* ProcessResponse (all of the chain, in order), and those before the reply,
\* whatever the other relays are doing.
C4_PhaseOrder ==
    \A r \in Reqs :
        LET q == req[r]
            ph == Phases(q)
        IN  /\ \A a, b \in 1..Len(ph) : a < b => PhaseRank(ph[a]) <= PhaseRank(ph[b])
            /\ \A a \in 1..Len(ph) :
                  /\ ph[a] = "backend" =>
                        /\ a = ChainLen + 1
                        /\ \A b \in 1..ChainLen : q.trace[b].ph = "req" /\ q.trace[b].i = b
                  /\ ph[a] = "reply" /\ Forwarded(q) /\ q.fwdUp =>
                        /\ a = 2 * ChainLen + 2
                        /\ \A b \in 1..ChainLen :
                              /\ q.trace[ChainLen + 1 + b].ph = "resp"
                              /\ q.trace[ChainLen + 1 + b].i = b
            /\ Count(q, "backend") <= 1
            /\ Count(q, "reply") <= 1

C4_Witness ==
    \E r1, r2 \in Reqs :
        /\ r1 # r2
        /\ req[r1].pc = "done" /\ Forwarded(req[r1]) /\ Len(req[r1].trace) = 6
        /\ req[r2].pc = "respStage" /\ req[r2].i = 2

\* C5 (P5, readiness gating): a listener is bound, and a request accepted or
\* forwarded, only after a health probe of waitForBackend has succeeded, that
\* is after a backend has been serving; a Start call that has not passed its
\* readiness wait has no server and no request.
C5_ReadinessGating ==
    /\ \A k \in Starts :
          /\ srv[k] = "listening" => everReady
          /\ spc[k] \in {"idle", "wait", "probing"} =>
                /\ srv[k] = "none"
                /\ \A r \in Reqs : req[r].by # k
    /\ \A r \in Reqs : req[r].pc # "idle" => everReady

C5_Witness ==
    \E r \in Reqs : Forwarded(req[r]) /\ req[r].fwdUp /\ spc[req[r].by] = "serving"

\* C6: every request is forwarded while a backend is Ready (up), also after
\* Stop and after the shutdown signal.
C6_ForwardOnlyWhileReady ==
    \A r \in Reqs : Forwarded(req[r]) => req[r].fwdUp

\* nothing of the program is left to run: no Start call is between its first
\* line and ListenAndServe or about to return, no relay is in flight, no Stop
\* is under way, and the context has killed what it can kill
AtRest ==
    /\ \A k \in Starts :
          /\ spc[k] \in {"serving", "returned"}
          /\ spc[k] = "serving" => srv[k] = "listening"
          /\ ctxCancelled => proc[k] \notin {"starting", "up", "mute"}
    /\ \A r \in Reqs : req[r].pc \in {"idle", "done"}
    /\ \A j \in Stops : stp[j].pc # "draining"

\* C7: once a signal has been handled and the program has come to rest, the
\* listener is shut down, the backend is stopped and Start has returned.
C7_CleanShutdownOnSignal ==
    ctxCancelled /\ AtRest =>
        /\ Listening = {}
        /\ Alive = {}
        /\ \A k \in Starts : spc[k] = "returned"

\* C8: a Start call that is not the first one fails without launching a
\* backend process.
C8_SecondStartFails ==
    \A k \in Starts :
        k >= 2 => proc[k] = "none" /\ spc[k] \in {"idle", "returned"}

\* C9: at most one backend process of the dispatcher is alive.
C9_AtMostOneBackend == Cardinality(Alive) <= 1

IsMsgForm(path) == Len(path) = 4 /\ path[3] = "msg"

NoOp(res) == res.handler = "none" /\ res.calls = <<>> /\ ~res.err /\ ~res.warned

\* C10 as stated (P2): for every path /{namespace}/{n}/msg/{type},
\* handleDIAppStart runs iff type is "10", and for every other type
\* ProcessRequest does nothing.
C10_AnyNamespace ==
    cls.used /\ cls.stage = "out" /\ cls.kind = "request" /\ IsMsgForm(cls.path) =>
        /\ cls.di.handler = "appStart" <=> cls.path[4] = StartType
        /\ cls.path[4] # StartType => NoOp(cls.di)

\* C10 as amended: for every path /fdo/101/msg/{type}, handleDIAppStart runs
\* iff type is "10"; for every path /{namespace}/{n}/msg/{type} with another
\* type, or with a namespace and number other than fdo and 101,
\* ProcessRequest does nothing.
C10_FdoNamespace ==
    cls.used /\ cls.stage = "out" /\ cls.kind = "request" /\ IsMsgForm(cls.path) =>
        LET fdo == cls.path[1] = "fdo" /\ cls.path[2] = "101"
        IN  /\ fdo => (cls.di.handler = "appStart" <=> cls.path[4] = StartType)
            /\ cls.path[4] # StartType \/ ~fdo => NoOp(cls.di)

C10_Witness ==
    /\ cls.used /\ cls.stage = "out" /\ cls.kind = "request"
    /\ cls.path = StartPath
    /\ cls.di.handler = "appStart"
    /\ Len(cls.di.calls) = 1

\* C11 (P3): the Message-Type header alone decides the response handler: "11"
\* fires the credentials-set handler of DI and nothing else, "71" the done
\* handler of TO2 and nothing else; without the header, or with any other
\* value, no handler runs, no client call is made and no error is returned.
C11_ResponseClassification ==
    cls.used /\ cls.stage = "out" /\ cls.kind = "response" =>
        /\ cls.di.handler = (IF cls.msgType = CredsType THEN "setCredentials" ELSE "none")
        /\ cls.to2.handler = (IF cls.msgType = DoneType THEN "done2" ELSE "none")
        /\ cls.msgType \notin {CredsType, DoneType} => NoOp(cls.di) /\ NoOp(cls.to2)
        /\ ~cls.di.err /\ ~cls.to2.err

C11_Witness ==
    /\ cls.used /\ cls.stage = "out" /\ cls.kind = "response"
    /\ cls.msgType = DoneType
    /\ cls.to2.handler = "done2" /\ Len(cls.to2.calls) = 1
    /\ cls.di.handler = "none"

GetCalls(q) == {a \in 1..Len(q.calls) : q.calls[a].op = "GetProductItemPassport"}

CreateCalls(q) == {a \in 1..Len(q.calls) : q.calls[a].op = "CreateCommissioningPassport"}

\* C12 (P4): without the product passport flag or without the product base
\* URL no relay calls GetProductItemPassport, and without the commissioning
\* URL no relay calls CreateCommissioningPassport.
C12_NoFeatureNoCall ==
    \A r \in Reqs :
        /\ ~(cfg.enableProductPassport /\ cfg.productBaseURL) => GetCalls(req[r]) = {}
        /\ ~cfg.commissioningURL => CreateCalls(req[r]) = {}

\* C13: the readiness wait always ends: a Start call that is in
\* waitForBackend leaves it, with success or with the timeout error, whatever
\* the backend does.
C13_WaitTerminates ==
    \A k \in 1..MainStarts :
        (spc[k] = "wait") ~> (spc[k] \notin {"wait", "probing"})

C15_StopReturnsNil ==
    \A j \in Stops : stp[j].pc = "done" => stp[j].ret = "nil"

\* a Stop whose Shutdown ran into the deadline killed the backend, and a
\* second Stop, on the stopped dispatcher, failed to kill it again
C15_Witness ==
    \E i, j \in Stops :
        /\ i # j
        /\ stp[i].pc = "done" /\ stp[i].expired /\ stp[i].killed # 0
        /\ stp[j].pc = "done" /\ stp[j].killErr
        /\ stp[i].ret = "nil" /\ stp[j].ret = "nil"

\* C16: the body the backend receives is the body the client sent, whether
\* or not the DI interceptor read it and whatever the passport call came to.
C16_BodyRoundTrip ==
    \A r \in Reqs :
        Forwarded(req[r]) /\ req[r].fwdUp => req[r].got = req[r].sent

C16_Witness ==
    \E r \in Reqs :
        /\ Forwarded(req[r]) /\ req[r].fwdUp
        /\ FailedCalls(req[r], "GetProductItemPassport") # {}
        /\ req[r].sent = <<"hdr", "productId">>
        /\ req[r].got = req[r].sent

\* commissioning is enabled: main has put the TO2 interceptor in the chain
\* and handed it a client
CommissioningOn == (\E a \in 1..ChainLen : cfg.chain[a] = "TO2") /\ HasClient(cfg)

\* C17 (Scenario B): with commissioning enabled a response with Message-Type
\* 71 causes exactly one CreateCommissioningPassport call, with the extracted
\* identifier as controller_uuid and empty cert and deployed_location; a
\* response with another Message-Type causes none.
C17_OneCommissioningCall ==
    \A r \in Reqs :
        LET q == req[r]
        IN  CommissioningOn /\ q.pc = "done" /\ q.fwdUp =>
                /\ Cardinality(CreateCalls(q)) = (IF q.resp.msgType = DoneType THEN 1 ELSE 0)
                /\ \A a \in CreateCalls(q) :
                      /\ q.calls[a].arg = extractDeviceGUID(q.resp)
                      /\ q.calls[a].cert = ""
                      /\ q.calls[a].loc = ""

C17_Witness ==
    \E r \in Reqs :
        /\ CommissioningOn /\ req[r].pc = "done" /\ req[r].resp.msgType = DoneType
        /\ Cardinality(CreateCalls(req[r])) = 1
        /\ \A a \in CreateCalls(req[r]) :
              req[r].calls[a].arg = "example-device-guid" /\ ~req[r].calls[a].failed

\* C18: the interceptors only observe the response: after every turn of
\* modifyResponse the response is the one the backend returned, and that is
\* what the client gets.
C18_ResponseUnchanged ==
    \A r \in Reqs :
        LET q == req[r]
        IN  q.fwdUp =>
                /\ q.relayed = q.resp
                /\ q.pc = "done" => q.out = q.resp

C18_Witness ==
    \E r \in Reqs :
        /\ req[r].pc = "done" /\ req[r].fwdUp
        /\ req[r].resp = Response(200, "71", <<"done2">>)
        /\ CreateCalls(req[r]) # {}
        /\ \E a \in 1..Len(req[r].trace) : req[r].trace[a].handler = "done2"
        /\ req[r].out = req[r].resp

IsRespEvent(e) == e.ph = "resp"

\* the interceptors whose ProcessResponse ran, in the order of the calls
RespOrder(q) ==
    LET calls == SelectSeq(q.trace, IsRespEvent)
    IN  [n \in 1..Len(calls) |-> calls[n].i]

\* C19: for every backend response ProcessResponse runs on every
\* interceptor of the chain, once each and in the order of the chain, also
\* after one of them returned an error.
C19_EveryResponseInterceptor ==
    \A r \in Reqs :
        LET q == req[r]
        IN  /\ q.fwdUp /\ q.pc \in {"reply", "done"} =>
                  RespOrder(q) = [n \in 1..ChainLen |-> n]
            /\ q.fwdUp /\ q.pc = "respStage" =>
                  RespOrder(q) = [n \in 1..(q.i - 1) |-> n]

C19_Witness ==
    \E r \in Reqs :
        /\ req[r].pc = "done" /\ req[r].fwdUp
        /\ cfg.chain = <<"Stub", "TO2">>
        /\ 1 \in req[r].respErrs
        /\ RespOrder(req[r]) = <<1, 2>>
        /\ CreateCalls(req[r]) # {}

\* C20: a relay whose interceptors all succeeded is forwarded and answered
\* with the backend's response, whatever happens to the relays in flight
\* beside it.
C20_FailureStaysLocal ==
    \A r \in Reqs :
        LET q == req[r]
        IN  q.reqErr = 0 =>
                /\ q.out # InternalServerError
                /\ q.pc = "done" => Forwarded(q) /\ q.fwdUp /\ q.out = q.resp
                                          /\ q.resp \in Responses(cfg)

C20_Witness ==
    \E r1, r2 \in Reqs :
        /\ r1 \in req[r2].peers
        /\ req[r2].pc = "done" /\ req[r2].reqErr # 0 /\ req[r2].out = InternalServerError
        /\ req[r1].pc = "done" /\ req[r1].reqErr = 0 /\ req[r1].out = req[r1].resp
        /\ Len(req[r1].trace) > Len(req[r2].trace)

\* the feature of an interceptor is not configured: it has no client, or the
\* URL of its endpoint is not set
EnrichmentOff == ~HasClient(cfg) \/ ~cfg.productBaseURL

CommissioningOff == ~HasClient(cfg) \/ ~cfg.commissioningURL

\* C21: a feature that is not configured is a silent no-op: without a
\* client, without the identifying token or without the URL of the feature,
\* the handler makes no client call, logs no warning and returns nil.
C21_SilentWhenNotConfigured ==
    \A r \in Reqs :
        LET q == req[r]
        IN  /\ EnrichmentOff \/ ~ContainsProductId(q.sent) => GetCalls(q) = {}
            /\ CommissioningOff => CreateCalls(q) = {}
            /\ EnrichmentOff /\ CommissioningOff => ~q.warned
            /\ EnrichmentOff /\ CommissioningOff /\ q.reqErr # 0 =>
                    cfg.chain[q.reqErr] = "Stub"

IsReqEvent(e) == e.ph = "req"

\* the interceptors whose ProcessRequest ran, in the order of the calls
ReqOrder(q) ==
    LET calls == SelectSeq(q.trace, IsReqEvent)
    IN  [n \in 1..Len(calls) |-> calls[n].i]

C26_HandlersExclusive ==
    cls.used /\ cls.stage = "out" =>
        /\ ~(cls.di.handler = "appStart" /\ cls.to2.handler = "helloDevice")
        /\ ~(cls.di.handler = "setCredentials" /\ cls.to2.handler = "done2")
        /\ cls.di.handler # "none" => cls.to2.handler = "none"

C26_Witness ==
    /\ cls.used /\ cls.stage = "out" /\ cls.kind = "response"
    /\ cls.msgType = CredsType
    /\ cls.di.handler = "setCredentials"
    /\ cls.to2.handler = "none"

\* C29: every client call of a relay, in the request stage and in the
\* response stage, runs under the top-level context of the dispatcher.
C29_CallsUnderTopContext ==
    \A r \in Reqs :
        \A a \in 1..Len(req[r].calls) : req[r].calls[a].ctx = "top"

\* C30: with a commissioning URL and an owner id, every response with
\* Message-Type 71 leads to a CreateCommissioningPassport call, whether or
\* not the mutual-TLS material of the read endpoint loads.
C30_CommissioningWithoutMTLS ==
    \A r \in Reqs :
        LET q == req[r]
        IN  /\ cfg.commissioningURL /\ cfg.ownerID
            /\ q.pc = "done" /\ q.fwdUp /\ q.resp.msgType = DoneType
            => CreateCalls(q) # {}

\* C22: a GetProductItemPassport call that is cancelled with the top-level
\* context does not fail the request: ProcessRequest of DI returns nil and
\* the request goes on to the backend instead of being answered with 500.
C22_CancelledCallSkipsEnrichment ==
    \A r \in Reqs :
        LET q == req[r]
        IN  q.cancelled # {} =>
                /\ q.reqErr \notin q.cancelled
                /\ q.reqErr = 0
                /\ q.out # InternalServerError
                /\ q.pc = "done" => Forwarded(q)

C22_Witness ==
    \E r \in Reqs :
        /\ ctxCancelled
        /\ req[r].cancelled # {}
        /\ FailedCalls(req[r], "GetProductItemPassport") # {}
        /\ req[r].pc = "done" /\ Forwarded(req[r])

C27_NoOrphanAfterFailedStart ==
    (exited /\ \E k \in Starts : startErr[k] = "timeout") => Alive = {}

\* C24: with its endpoint configured and a response received, the product
\* lookup succeeds exactly for status 200 with a decodable body and fails for
\* every other status, other 2xx included; the commissioning call succeeds
\* exactly for the statuses 200..299
C24_StatusClassification ==
    (cls.used /\ cls.stage = "out" /\ cls.h.kind \in {"status", "badjson"}) =>
        /\ (cls.kind = "get" /\ cfg.productBaseURL) =>
              /\ cls.h.status # 200 => cls.err
              /\ cls.h.kind = "status" => (cls.err <=> cls.h.status # 200)
        /\ (cls.kind = "create" /\ cfg.commissioningURL /\ cls.h.kind = "status") =>
              (cls.err <=> ~(200 <= cls.h.status /\ cls.h.status <= 299))

\* the product lookup has failed on a 2xx status other than 200
C24_Witness ==
    /\ cls.used /\ cls.stage = "out" /\ cls.kind = "get" /\ cfg.productBaseURL
    /\ cls.h = [kind |-> "status", status |-> 204]
    /\ cls.err

\* C28: once a call of Stop has returned, no request is accepted any more
C28_NoAcceptAfterStop ==
    [][(\E j \in Stops : stp[j].pc = "done") =>
          \A r \in Reqs : req[r].pc = "idle" => req'[r].pc = "idle"]_vars

====
